---- MODULE Spec2Model ----
(***************************************************************************)
(* Love4Pets API gateway: the request pipeline (ThrottlerGuard,            *)
(* JwtAuthGuard, RolesGuard, controller guards, LoggingInterceptor, the    *)
(* proxy controllers and ProxyService) as a state machine over one         *)
(* inbound request at a time.                                              *)
(*                                                                         *)
(* Library behaviour the sources rely on and the model takes as given:     *)
(*  - NestJS runs the APP_GUARD providers in the order of the providers    *)
(*    array, then the controller's @UseGuards guards, then the             *)
(*    interceptors, then the handler; a guard that throws ends the request *)
(*    in the exception filter.                                             *)
(*  - Express matches the routes of a controller in declaration order.     *)
(*  - passport-jwt answers a missing, badly signed, wrong-algorithm or     *)
(*    expired token with 401 and calls validate() only for a token that    *)
(*    verified.                                                            *)
(*  - @nestjs/throttler's ThrottlerGuard either admits the request or      *)
(*    throws a 429; its counters are library state and are not modelled.   *)
(*  - @nestjs/terminus' HealthCheckService.check returns the result when    *)
(*    every indicator succeeded and throws ServiceUnavailableException      *)
(*    carrying the result otherwise; how it schedules the indicators is     *)
(*    library behaviour and is not modelled.                                *)
(*  - @nestjs/config validates the environment against validationSchema     *)
(*    inside ConfigModule.forRoot and throws when the validation fails.     *)
(***************************************************************************)
EXTENDS Integers, Sequences, FiniteSets, TLC

VARIABLES
    pc,         \* position of the request in the pipeline
    req,        \* the inbound request: method, path, token, headers
    handler,    \* the route handler Express resolved for the request
    user,       \* req.user, the identity passport attached (or NoUser)
    out,        \* the outbound request ProxyService built (or NoOut)
    resp,       \* the response delivered to the caller (or NoResp)
    ran,        \* the pipeline stages executed so far, in order
    rolesMeta,  \* the @Roles metadata of the resolved handler
    jwtAudience, \* configService.get('JWT_AUDIENCE')
    jwtSecret,  \* JWT_SECRET of the environment the process starts in
    fwd         \* the outcome of a direct call of ProxyService.forward

vars == <<pc, req, handler, user, out, resp, ran, rolesMeta, jwtAudience,
          jwtSecret, fwd>>

Absent == "<absent>"

----------------------------------------------------------------------------
\* Header names

PROPAGATED_HEADERS ==
    {"authorization", "content-type", "accept", "x-request-id",
     "x-forwarded-for", "x-real-ip", "user-agent"}

GATEWAY_HEADERS ==
    [h \in {"X-Gateway", "X-Gateway-Version"} |->
        IF h = "X-Gateway" THEN "love4pets-api-gateway" ELSE "1.0.0"]

USER_HEADERS == {"x-user-id", "x-user-role", "x-user-email", "x-user-refugio"}

\* The sets of header names a client sends besides Authorization (express
\* lower-cases them): allow-listed ones, ordinary ones, and x-user-* spoofs.
ClientHeaderSets ==
    { {},
      {"x-request-id"},
      {"content-type", "cookie"},
      {"x-user-id", "x-user-role"},
      {"x-request-id", "x-user-id", "x-user-email", "x-user-refugio"},
      {"content-type", "accept", "x-request-id", "cookie", "x-gateway",
       "x-user-role"} }

ClientValue == "client-value"
BearerValue == "Bearer <token>"
GeneratedUuid == "uuid-v4"
\* uuidv4() gives a new value on every call: the values two calls can give.
GeneratedUuids == {GeneratedUuid, "uuid-v4 of another call"}
GeneratedGwId == "gw-<time>-<rand>"

----------------------------------------------------------------------------
\* Tokens

\* envValidationSchema.JWT_ISSUER's default, the issuer the Auth Service signs
\* with (AuthModule's signOptions.issuer).
JWT_ISSUER == "love4pets-auth"

\* Absent stands for a claim that is missing or holds a value JavaScript
\* treats as false (undefined, null, the empty string).
Payload(sub, role, aud, email, refugio) ==
    [sub |-> sub, role |-> role, aud |-> aud, email |-> email,
     id_refugio |-> refugio, iss |-> JWT_ISSUER]

\* A well-formed payload that names another issuer.
ForeignIssuer == "https://other-issuer.example"
IssuedBy(payload, iss) == [payload EXCEPT !.iss = iss]

\* The aud claim: absent, a string, or an array of strings.
NoAud == [arr |-> FALSE, vals |-> {}]
AudStr(a) == [arr |-> FALSE, vals |-> {a}]
AudArr(as) == [arr |-> TRUE, vals |-> as]

SignedTokens ==
    {[sig |-> "ok", payload |-> Payload("u1", r, AudStr("authenticated"), e[1], e[2])] :
        r \in {Absent, "normal", "admin"}, e \in {<<Absent, Absent>>}}
    \cup {[sig |-> "ok", payload |-> Payload("u1", "normal", AudStr("authenticated"), "e1", Absent)],
          [sig |-> "ok", payload |-> Payload("u1", "admin", AudStr("authenticated"), "e1", "r1")]}
    \cup {[sig |-> "ok", payload |-> Payload(Absent, "normal", AudStr("authenticated"), Absent, Absent)],
          [sig |-> "ok", payload |-> Payload("u1", "normal", AudStr("other"), Absent, Absent)],
          [sig |-> "ok", payload |-> Payload("u1", "normal", AudArr({"other", "authenticated"}), Absent, Absent)],
          [sig |-> "ok", payload |-> Payload("u1", "admin", NoAud, Absent, Absent)],
          [sig |-> "ok", payload |-> Payload("u1", "normal", AudArr({}), Absent, Absent)],
          [sig |-> "ok", payload |-> IssuedBy(Payload("u1", "admin", AudStr("authenticated"), "e1", Absent),
                                              ForeignIssuer)]}

NoPayload == Payload(Absent, Absent, NoAud, Absent, Absent)

\* sig: none = no Authorization header, garbled = bad signature,
\* wrongalg = signed with another algorithm than HS256, expired = exp passed.
\* A token that fails verification may still carry a well-formed payload.
UnverifiedTokens ==
    {[sig |-> "none", payload |-> NoPayload]}
    \cup {[sig |-> s, payload |-> Payload("u1", "admin", AudStr("authenticated"), "e1", Absent)] :
            s \in {"garbled", "wrongalg", "expired"}}

Tokens == UnverifiedTokens \cup SignedTokens

----------------------------------------------------------------------------
\* Routing: the controllers' route tables, in registration order

Methods == {"GET", "POST"}

\* One route: method ("ALL" for @All), path pattern, handler, @Public() flag.
R(m, pat, h, pub) == [m |-> m, pat |-> pat, h |-> h, pub |-> pub]

AuthRoutes ==
    << R("ALL", <<"auth", "login">>, "Auth.login", TRUE),
       R("ALL", <<"auth", "register">>, "Auth.register", TRUE),
       R("ALL", <<"auth", "logout">>, "Auth.logout", TRUE),
       R("ALL", <<"auth", "refresh">>, "Auth.refreshToken", TRUE),
       R("ALL", <<"auth", "me">>, "Auth.me", FALSE),
       R("ALL", <<"auth", "validate">>, "Auth.validate", FALSE),
       R("ALL", <<"auth", "*">>, "Auth.proxyAll", TRUE) >>

PaymentsRoutes ==
    << R("ALL", <<"payments", "health">>, "Payments.healthCheck", TRUE),
       R("ALL", <<"payments", "webhooks", "stripe">>, "Payments.stripeWebhook", TRUE),
       R("ALL", <<"payments">>, "Payments.createPayment", FALSE),
       R("ALL", <<"payments", "*">>, "Payments.proxyAll", FALSE) >>

RestRoutes ==
    << R("ALL", <<"api", "health">>, "Rest.healthCheck", TRUE),
       R("ALL", <<"api", "animales">>, "Rest.getAnimales", TRUE),
       R("ALL", <<"api", "animales", ":id">>, "Rest.getAnimalById", TRUE),
       R("ALL", <<"api", "refugios">>, "Rest.getRefugios", TRUE),
       R("ALL", <<"api", "refugios", ":id">>, "Rest.getRefugioById", TRUE),
       R("ALL", <<"api", "causas-urgentes">>, "Rest.getCausasUrgentes", TRUE),
       R("ALL", <<"api", "causas-urgentes", ":id">>, "Rest.getCausaUrgenteById", TRUE),
       R("ALL", <<"api", "especies">>, "Rest.getEspecies", TRUE),
       R("ALL", <<"api", "campanias">>, "Rest.getCampanias", TRUE),
       R("ALL", <<"api", "*">>, "Rest.proxyAll", FALSE) >>

GraphQLRoutes ==
    << R("ALL", <<"graphql">>, "GraphQL.graphqlEndpoint", TRUE),
       R("ALL", <<"graphql", "playground">>, "GraphQL.graphqlPlayground", TRUE) >>

McpRoutes ==
    << R("ALL", <<"mcp", "chat">>, "Mcp.proxyChat", TRUE),
       R("ALL", <<"mcp", "chat", "multimodal">>, "Mcp.proxyChatMultimodal", TRUE),
       R("ALL", <<"mcp", "tools">>, "Mcp.proxyTools", TRUE),
       R("ALL", <<"mcp", "health">>, "Mcp.proxyHealth", TRUE),
       R("ALL", <<"mcp", "providers">>, "Mcp.proxyProviders", TRUE) >>

HealthRoutes ==
    << R("GET", <<"health">>, "Health.basicHealth", TRUE),
       R("GET", <<"health", "all">>, "Health.checkAll", TRUE),
       R("GET", <<"health", "rest">>, "Health.checkRest", TRUE),
       R("GET", <<"health", "graphql">>, "Health.checkGraphQL", TRUE),
       R("GET", <<"health", "payments">>, "Health.checkPayments", TRUE) >>

\* ProxyModule lists its controllers Auth, Payments, Rest, GraphQL, Mcp;
\* AppModule imports ProxyModule before HealthModule.
Routes ==
    AuthRoutes \o PaymentsRoutes \o RestRoutes \o GraphQLRoutes \o McpRoutes
    \o HealthRoutes

NotFound == "NotFound"

RECURSIVE PatMatch(_, _)
\* A literal segment matches itself, ":id" one segment, "*" the rest of the path.
PatMatch(pat, path) ==
    IF pat = <<>> THEN path = <<>>
    ELSE IF Head(pat) = "*" THEN path # <<>>
    ELSE IF path = <<>> THEN FALSE
    ELSE /\ (Head(pat) = ":id" \/ Head(pat) = Head(path))
         /\ PatMatch(Tail(pat), Tail(path))

RouteMatches(r, m, path) ==
    /\ r.m \in {"ALL", m}
    /\ PatMatch(r.pat, path)

\* The first route, in registration order, that matches.
Resolve(m, path) ==
    LET hits == {i \in 1..Len(Routes) : RouteMatches(Routes[i], m, path)}
    IN  IF hits = {} THEN NotFound
        ELSE Routes[CHOOSE i \in hits : \A j \in hits : i <= j].h

HandlersOf(routes) == {routes[i].h : i \in 1..Len(routes)}

Handlers == HandlersOf(Routes)

\* The IS_PUBLIC_KEY metadata of a handler, set by @Public().
IsPublic(h) == \E i \in 1..Len(Routes) : Routes[i].h = h /\ Routes[i].pub

\* Controllers that carry @UseGuards(JwtAuthGuard) on the class.
HasClassGuard(h) ==
    h \in HandlersOf(PaymentsRoutes) \cup HandlersOf(RestRoutes)
          \cup HandlersOf(GraphQLRoutes)

\* Request paths of the model: every route pattern has at least one.
Paths ==
    { <<"auth", "login">>, <<"auth", "register">>, <<"auth", "logout">>,
      <<"auth", "refresh">>, <<"auth", "me">>, <<"auth", "validate">>,
      <<"auth", "sessions">>,
      <<"payments", "health">>, <<"payments", "webhooks", "stripe">>,
      <<"payments">>, <<"payments", "donations">>,
      <<"api", "health">>, <<"api", "animales">>, <<"api", "animales", "7">>,
      <<"api", "refugios">>, <<"api", "refugios", "7">>,
      <<"api", "causas-urgentes">>, <<"api", "causas-urgentes", "7">>,
      <<"api", "especies">>, <<"api", "campanias">>, <<"api", "usuarios">>,
      <<"graphql">>, <<"graphql", "playground">>,
      <<"mcp", "chat">>, <<"mcp", "chat", "multimodal">>, <<"mcp", "tools">>,
      <<"mcp", "health">>, <<"mcp", "providers">>,
      <<"health">>, <<"health", "all">>, <<"health", "rest">>,
      <<"health", "graphql">>, <<"health", "payments">>,
      <<"health", "auth">>, <<"health", "mcp">> }

----------------------------------------------------------------------------
\* Authentication and authorization

NoUser ==
    [present |-> FALSE, userId |-> Absent, email |-> Absent, role |-> Absent,
     idRefugio |-> Absent]

GuardPass == [pass |-> TRUE, attach |-> FALSE, user |-> NoUser, status |-> 0]
GuardAttach(u) == [pass |-> TRUE, attach |-> TRUE, user |-> u, status |-> 0]
GuardReject(st) == [pass |-> FALSE, attach |-> FALSE, user |-> NoUser, status |-> st]

\* Mutant: ignoreExpiration set to true.
JwtVerify_IgnoreExpiration(tok) == tok.sig \in {"ok", "expired"}

\* passport-jwt as JwtStrategy's constructor configures it: the bearer token
\* must be present, signed with the secret under HS256, and not expired.
JwtVerify(tok) == tok.sig = "ok"

\* JavaScript truthiness of payload.aud: an array is truthy even when empty.
AudTruthy(aud) == aud.arr \/ aud.vals # {}

\* JwtStrategy.validate, split at the point where the identity is built.
\* Mutant: the role is copied from the token without the 'normal' default.
AuthenticatedUser_NoDefaultRole(payload) ==
    [present |-> TRUE, userId |-> payload.sub, email |-> payload.email,
     role |-> payload.role, idRefugio |-> payload.id_refugio]

\* The AuthenticatedUser validate builds from a payload.
AuthenticatedUser(payload) ==
    [present |-> TRUE,
     userId |-> payload.sub,
     email |-> payload.email,
     role |-> IF payload.role = Absent THEN "normal" ELSE payload.role,
     idRefugio |-> payload.id_refugio]

\* Mutant: validate without the audience check.
Validate_NoAudienceCheck(payload, expectedAudience) ==
    IF payload.sub = Absent THEN GuardReject(401)
    ELSE GuardAttach(AuthenticatedUser(payload))

\* JwtStrategy.validate
Validate(payload, expectedAudience) ==
    IF payload.sub = Absent THEN GuardReject(401)
    ELSE IF /\ expectedAudience # Absent
            /\ AudTruthy(payload.aud)
            /\ expectedAudience \notin payload.aud.vals
         THEN GuardReject(401)
    ELSE GuardAttach(AuthenticatedUser(payload))

\* Mutant: a public route still validates a token when one is sent.
JwtAuthGuardCanActivate_OptionalAuth(h, tok, expectedAudience) ==
    IF IsPublic(h) /\ tok.sig = "none" THEN GuardPass
    ELSE IF ~JwtVerify(tok) THEN GuardReject(401)
    ELSE Validate(tok.payload, expectedAudience)

\* JwtAuthGuard.canActivate
JwtAuthGuardCanActivate(h, tok, expectedAudience) ==
    IF IsPublic(h) THEN GuardPass
    ELSE IF ~JwtVerify(tok) THEN GuardReject(401)
    ELSE Validate(tok.payload, expectedAudience)

\* Mutant: the role comparison dropped, any authenticated user passes.
RolesGuardCanActivate_AnyUser(requiredRoles, u) ==
    IF requiredRoles = {} THEN GuardPass
    ELSE IF ~u.present THEN GuardReject(403)
    ELSE GuardPass

\* RolesGuard.canActivate
RolesGuardCanActivate(requiredRoles, u) ==
    IF requiredRoles = {} THEN GuardPass
    ELSE IF ~u.present THEN GuardReject(403)
    ELSE IF u.role \in requiredRoles THEN GuardPass
    ELSE GuardReject(403)

----------------------------------------------------------------------------
\* ProxyService

\* The left operand wins on names both define.
Overlay(f, g) == f @@ g

urlMap ==
    [n \in {"rest", "graphql", "payments", "websocket", "auth", "mcp"} |->
        CASE n = "rest" -> "http://localhost:8080"
          [] n = "graphql" -> "http://localhost:8000"
          [] n = "payments" -> "http://localhost:8001"
          [] n = "websocket" -> "http://localhost:4000"
          [] n = "auth" -> "http://localhost:8090"
          [] n = "mcp" -> "http://localhost:8002"]

\* String.prototype.toLowerCase on the service names of the model.
toLowerCase(str) ==
    CASE str = "REST" -> "rest"
      [] str = "Payments" -> "payments"
      [] str = "toString" -> "tostring"
      [] OTHER -> str

\* urlMap is an object literal: indexing it with the name of a member of
\* Object.prototype yields that member, a truthy value that is not a URL.
ObjectPrototypeMembers == {"constructor"}
InheritedMember == "function Object() { [native code] }"

\* ProxyService.getServiceUrl: urlMap[serviceName.toLowerCase()] || ''
getServiceUrl(serviceName) ==
    LET key == toLowerCase(serviceName)
    IN  IF key \in DOMAIN urlMap THEN urlMap[key]
        ELSE IF key \in ObjectPrototypeMembers THEN InheritedMember
        ELSE ""

EmptyHeaders == [h \in {} |-> ClientValue]

\* Mutant: every inbound header is copied.
CopiedHeaders_All(inHeaders) == inHeaders

\* The allow-listed inbound headers that carry a value.
CopiedHeaders(inHeaders) ==
    [h \in {n \in PROPAGATED_HEADERS \cap DOMAIN inHeaders : inHeaders[n] # ""}
        |-> inHeaders[h]]

\* The x-user-* headers ProxyService derives from req.user.
UserHeaders(u) ==
    IF ~u.present THEN EmptyHeaders
    ELSE Overlay([h \in {"x-user-id", "x-user-role"} |->
                     IF h = "x-user-id" THEN u.userId ELSE u.role],
         Overlay(IF u.email # Absent THEN [h \in {"x-user-email"} |-> u.email]
                 ELSE EmptyHeaders,
                 IF u.idRefugio # Absent
                 THEN [h \in {"x-user-refugio"} |-> u.idRefugio]
                 ELSE EmptyHeaders))

\* Mutant: the x-user-* headers are on the allow-list and the identity overlay
\* is skipped when the client already sent them.
extractHeaders_TrustClient(inHeaders, u) ==
    LET copied == [h \in {n \in (PROPAGATED_HEADERS \cup USER_HEADERS)
                                  \cap DOMAIN inHeaders : inHeaders[n] # ""}
                      |-> inHeaders[h]]
        withGateway == Overlay(GATEWAY_HEADERS, copied)
        withId == IF "x-request-id" \in DOMAIN withGateway THEN withGateway
                  ELSE Overlay([h \in {"x-request-id"} |-> GeneratedGwId],
                               withGateway)
    IN  Overlay(withId, UserHeaders(u))

\* Mutant: a new x-request-id is generated for every outbound request.
extractHeaders_AlwaysNewId(inHeaders, u) ==
    LET copied == CopiedHeaders(inHeaders)
        withGateway == Overlay(GATEWAY_HEADERS, copied)
        withId == Overlay([h \in {"x-request-id"} |-> GeneratedGwId], withGateway)
    IN  Overlay(UserHeaders(u), withId)

\* ProxyService.extractHeaders
extractHeaders(inHeaders, u) ==
    LET copied == CopiedHeaders(inHeaders)
        withGateway == Overlay(GATEWAY_HEADERS, copied)
        withId == IF "x-request-id" \in DOMAIN withGateway THEN withGateway
                  ELSE Overlay([h \in {"x-request-id"} |-> GeneratedGwId],
                               withGateway)
    IN  Overlay(UserHeaders(u), withId)

\* formData.getHeaders(): the multipart content type with its boundary.
MultipartHeaders == [h \in {"content-type"} |-> "multipart/form-data; boundary"]

\* attempts: how many times the outbound request has been sent.
\* ProxyService.timeoutMs, the deadline in milliseconds of an outbound call:
\* given to axios as `timeout` and to the rxjs timeout() operator.
timeoutMs == 30000

NoOut ==
    [present |-> FALSE, via |-> Absent, service |-> Absent, base |-> Absent,
     path |-> <<>>, method |-> Absent, headers |-> EmptyHeaders, timeout |-> 0,
     attempts |-> 0]

Outbound(via, service, base, path, method, headers) ==
    [present |-> TRUE, via |-> via, service |-> service, base |-> base,
     path |-> path, method |-> method, headers |-> headers,
     timeout |-> timeoutMs, attempts |-> 1]

\* Mutant: the !baseUrl check dropped.
forward_NoBaseUrlCheck(serviceName, path, r, u) ==
    [status |-> 0,
     out |-> Outbound("forward", serviceName, getServiceUrl(serviceName), path,
                      r.method, extractHeaders(r.headers, u))]

\* ProxyService.forward up to the outbound call: status 502 and no outbound
\* request when getServiceUrl gives '', the outbound request otherwise.
forward(serviceName, path, r, u) ==
    IF getServiceUrl(serviceName) = "" THEN [status |-> 502, out |-> NoOut]
    ELSE [status |-> 0,
          out |-> Outbound("forward", serviceName, getServiceUrl(serviceName),
                           path, r.method, extractHeaders(r.headers, u))]

\* What the backend call can end in: a response with a status code, or one of
\* the transport failures (axios error codes; RxTimeout is the rxjs timeout()
\* operator firing, an error without code or response).
BackendStatuses == {200, 404, 500}
TransportFailures ==
    {"ECONNREFUSED", "ECONNABORTED", "ETIMEDOUT", "ENOTFOUND", "RxTimeout"}

\* The x-request-id header of the backend's response: none, or the backend's own.
BackendOwnId == "backend-id"
BackendRequestIds == {Absent, BackendOwnId}

\* The two ways the deadline of an outbound call expires: axios' own timeout
\* (error code ECONNABORTED) and the rxjs timeout() operator (a TimeoutError,
\* which has neither code nor response).  Both timers run for timeoutMs, so
\* either can fire first.
DeadlineExpiries == {"ECONNABORTED", "RxTimeout"}

AxiosError(code, status) == [code |-> code, status |-> status]

\* ProxyService.handleAxiosError: the status of the HttpException it returns
\* (err.status = 0 stands for an error without a response).
handleAxiosError(err) ==
    IF err.code = "ECONNREFUSED" THEN 503
    ELSE IF err.code \in {"ETIMEDOUT", "ECONNABORTED"} THEN 504
    ELSE IF err.status # 0 THEN err.status
    ELSE 502

----------------------------------------------------------------------------
\* Controllers: what a handler does with the request, as a plan
\*   forward        ProxyService.forward(service, path, req)
\*   proxyRequest   ProxyService.proxyRequest(req, res, targetUrl)
\*   proxyMultipart ProxyService.proxyMultipartRequest(req, res, targetUrl, file)
\*   local          the handler answers itself with the given status
\*   health         a terminus health check

Plan(kind, service, path, status) ==
    [kind |-> kind, service |-> service, path |-> path, status |-> status]

Forward(service, path) == Plan("forward", service, path, 0)
Local(status) == Plan("local", Absent, <<>>, status)

\* AuthProxyController
AuthHandler(h, r) ==
    CASE h = "Auth.login" -> Forward("auth", <<"auth", "login">>)
      [] h = "Auth.register" -> Forward("auth", <<"auth", "register">>)
      [] h = "Auth.logout" -> Forward("auth", <<"auth", "logout">>)
      [] h = "Auth.refreshToken" -> Forward("auth", <<"auth", "refresh">>)
      [] h = "Auth.me" -> Forward("auth", <<"auth", "me">>)
      [] h = "Auth.validate" -> Forward("auth", <<"auth", "validate">>)
      [] h = "Auth.proxyAll" -> Forward("auth", r.path)

\* PaymentsProxyController; proxyAll strips the /payments prefix.
PaymentsHandler(h, r) ==
    CASE h = "Payments.healthCheck" -> Forward("payments", <<"health">>)
      [] h = "Payments.stripeWebhook" -> Forward("payments", <<"webhooks", "stripe">>)
      [] h = "Payments.createPayment" -> Forward("payments", <<>>)
      [] h = "Payments.proxyAll" -> Forward("payments", Tail(r.path))

\* Mutant: the req.user check dropped.
proxyProtected_NoUserCheck(r, u) == Forward("rest", r.path)

\* RestProxyController.proxyProtected
proxyProtected(r, u) ==
    IF ~u.present THEN Local(401) ELSE Forward("rest", r.path)

\* The handlers of RestProxyController that forward GET and hand every other
\* method to proxyProtected.
GetOnly(r, u, path) ==
    IF r.method = "GET" THEN Forward("rest", path) ELSE proxyProtected(r, u)

\* RestProxyController
RestHandler(h, r, u) ==
    CASE h = "Rest.healthCheck" -> Forward("rest", <<"api", "health">>)
      [] h = "Rest.getAnimales" -> GetOnly(r, u, <<"api", "animales">>)
      [] h = "Rest.getAnimalById" -> GetOnly(r, u, r.path)
      [] h = "Rest.getRefugios" -> GetOnly(r, u, <<"api", "refugios">>)
      [] h = "Rest.getRefugioById" -> GetOnly(r, u, r.path)
      [] h = "Rest.getCausasUrgentes" -> GetOnly(r, u, <<"api", "causas-urgentes">>)
      [] h = "Rest.getCausaUrgenteById" -> GetOnly(r, u, r.path)
      [] h = "Rest.getEspecies" -> Forward("rest", <<"api", "especies">>)
      [] h = "Rest.getCampanias" -> GetOnly(r, u, <<"api", "campanias">>)
      [] h = "Rest.proxyAll" -> proxyProtected(r, u)

\* GraphQLProxyController; production is process.env.NODE_ENV === 'production'.
GraphQLHandler(h, production) ==
    CASE h = "GraphQL.graphqlEndpoint" -> Forward("graphql", <<"graphql">>)
      [] h = "GraphQL.graphqlPlayground" ->
            IF production THEN Local(404) ELSE Forward("graphql", <<"graphql">>)

\* McpProxyController: the target is MCP_SERVICE_URL plus the fixed path.
McpHandler(h) ==
    CASE h = "Mcp.proxyChat" -> Plan("proxyRequest", "mcp", <<"mcp", "chat">>, 0)
      [] h = "Mcp.proxyChatMultimodal" ->
            Plan("proxyMultipart", "mcp", <<"mcp", "chat", "multimodal">>, 0)
      [] h = "Mcp.proxyTools" -> Plan("proxyRequest", "mcp", <<"mcp", "tools">>, 0)
      [] h = "Mcp.proxyHealth" -> Plan("proxyRequest", "mcp", <<"mcp", "health">>, 0)
      [] h = "Mcp.proxyProviders" -> Plan("proxyRequest", "mcp", <<"mcp", "providers">>, 0)

\* HealthController: basicHealth answers itself, the others run probes.
HealthHandler(h) ==
    IF h = "Health.basicHealth" THEN Local(200)
    ELSE Plan("health", Absent, <<>>, 0)

\* The configuration ConfigService serves: the environment variables (with
\* the defaults of envValidationSchema) and envConfig under its namespace 'env'.
Config ==
    [k \in {"REST_API_URL", "GRAPHQL_API_URL", "PAYMENTS_API_URL",
            "env.services.rest", "env.services.graphql",
            "env.services.payments"} |->
        CASE k \in {"REST_API_URL", "env.services.rest"} -> "http://localhost:8080"
          [] k \in {"GRAPHQL_API_URL", "env.services.graphql"} -> "http://localhost:8000"
          [] k \in {"PAYMENTS_API_URL", "env.services.payments"} -> "http://localhost:8001"]

\* configService.get(key) inside a template literal: a key that is not
\* defined gives undefined, which the template prints as "undefined".
ConfigGet(key) == IF key \in DOMAIN Config THEN Config[key] ELSE "undefined"

Probe(name, key, backend) == [name |-> name, key |-> key, backend |-> backend]

RestProbe == Probe("rest-api", "services.restApiUrl", "rest")
GraphQLProbe == Probe("graphql-api", "services.graphqlApiUrl", "graphql")
PaymentsProbe == Probe("payments-service", "services.paymentsApiUrl", "payments")

\* The pingChecks each handler of HealthController hands to health.check.
HealthProbes(h) ==
    CASE h = "Health.checkAll" -> {RestProbe, GraphQLProbe, PaymentsProbe}
      [] h = "Health.checkRest" -> {RestProbe}
      [] h = "Health.checkGraphQL" -> {GraphQLProbe}
      [] h = "Health.checkPayments" -> {PaymentsProbe}
      [] OTHER -> {}

HealthBackends == {"rest", "graphql", "payments"}

\* The probe pings the backend when the base URL it read is that backend's.
PingsBackend(p) == ConfigGet(p.key) = urlMap[p.backend]

\* The outcome of a pingCheck: that of the backend when the probe pings it,
\* otherwise whatever a request to "undefined/<path>" ends in.
ProbeUp(p, upBackends, strayUp) ==
    IF PingsBackend(p) THEN p.backend \in upBackends ELSE p.name \in strayUp

HandlerPlan(h, r, u, production) ==
    IF h \in HandlersOf(AuthRoutes) THEN AuthHandler(h, r)
    ELSE IF h \in HandlersOf(PaymentsRoutes) THEN PaymentsHandler(h, r)
    ELSE IF h \in HandlersOf(RestRoutes) THEN RestHandler(h, r, u)
    ELSE IF h \in HandlersOf(GraphQLRoutes) THEN GraphQLHandler(h, production)
    ELSE IF h \in HandlersOf(McpRoutes) THEN McpHandler(h)
    ELSE HealthHandler(h)

----------------------------------------------------------------------------
\* Responses

\* via: "filter" = the error envelope of HttpExceptionFilter, "handler" = a body
\* the handler wrote itself, "backend" = the backend's response relayed.
\* by: the pipeline stage that ended the request.
\* The health part of a response: the probes that ran, the backends that
\* were up when they ran, the probes that succeeded, and the entries the body
\* shows as healthy and as unreachable.
NoHealth ==
    [probed |-> {}, backendsUp |-> {}, succeeded |-> {}, healthy |-> {},
     unreachable |-> {}]

\* service: the service label the error message names; backendStatus: the
\* status the backend answered with (0 = none); fail: the transport failure of
\* the outbound call.
NoResp ==
    [present |-> FALSE, status |-> 0, via |-> Absent, by |-> Absent,
     requestId |-> Absent, xRequestId |-> Absent, service |-> Absent,
     backendStatus |-> 0, fail |-> Absent, health |-> NoHealth,
     body |-> {}, message |-> Absent, thrown |-> Absent]

InterceptorRan == \E i \in 1..Len(ran) : ran[i] = "LoggingInterceptor"

\* The X-Request-ID response header, set by LoggingInterceptor only.
ResponseRequestId ==
    IF InterceptorRan THEN req.headers["x-request-id"] ELSE Absent

\* The members of ErrorResponse.
ErrorResponseKeys ==
    {"statusCode", "message", "error", "timestamp", "path", "requestId"}

\* The message of an HttpException the gateway or NestJS constructs, and the
\* two messages that stand in for an exception's own.
GatewayMessage == "<message of the HttpException>"
InternalErrorMessage == "Error interno del gateway"
UnexpectedErrorMessage == "An unexpected error occurred"

\* The envelope HttpExceptionFilter.catch writes: requestId is read from the
\* request's x-request-id header, and res.json leaves an undefined member out
\* of the body.  thrown: the message of the local exception behind the
\* response, if one was thrown.
ErrorEnvelope(status, message, stage, thrown) ==
    LET requestId == IF "x-request-id" \in DOMAIN req.headers
                     THEN req.headers["x-request-id"] ELSE Absent
    IN  [present |-> TRUE, status |-> status, via |-> "filter", by |-> stage,
         requestId |-> requestId,
         xRequestId |-> ResponseRequestId, service |-> Absent,
         backendStatus |-> 0, fail |-> Absent, health |-> NoHealth,
         body |-> IF requestId = Absent THEN ErrorResponseKeys \ {"requestId"}
                  ELSE ErrorResponseKeys,
         message |-> message, thrown |-> thrown]

\* HttpExceptionFilter.catch for an HttpException
HttpExceptionFilter(status, stage) ==
    ErrorEnvelope(status, GatewayMessage, stage, Absent)

\* HttpExceptionFilter.catch for an exception that is an Error and not an
\* HttpException: status 500, message = exception.message.
HttpExceptionFilterError(msg, stage) ==
    ErrorEnvelope(500, msg, stage, msg)

\* The bodies the handlers write themselves: the refusals of proxyProtected
\* and graphqlPlayground, and basicHealth's status report.
HandlerBody(status) ==
    IF status >= 400 THEN {"success", "error"}
    ELSE {"status", "service", "timestamp", "version"}

BackendBody == {"<backend body>"}
HealthCheckResultKeys == {"status", "info", "error", "details"}

\* res.status(status).json(body) written by a handler or by ProxyService.
Reply(status, via, stage) ==
    [present |-> TRUE, status |-> status, via |-> via, by |-> stage,
     requestId |-> Absent, xRequestId |-> ResponseRequestId,
     service |-> Absent, backendStatus |-> 0, fail |-> Absent,
     health |-> NoHealth,
     body |-> IF via = "backend" THEN BackendBody ELSE HandlerBody(status),
     message |-> Absent, thrown |-> Absent]

----------------------------------------------------------------------------
\* The pipeline

InboundHeaders(tok, names) ==
    [h \in names \cup (IF tok.sig = "none" THEN {} ELSE {"authorization"}) |->
        IF h = "authorization" THEN BearerValue ELSE ClientValue]

NoReq ==
    [method |-> Absent, path |-> <<>>, token |-> [sig |-> "none", payload |-> NoPayload],
     headers |-> EmptyHeaders]

\* The values JWT_SECRET can have when the process starts: unset, empty, set.
SecretValues == {Absent, "", "s3cret"}

\* The service names forward is called with directly: the registry's names
\* (in any case), names it does not have, the empty name, and names of
\* members of Object.prototype.
ServiceNames ==
    {"rest", "REST", "Payments", "auth", "graphql", "mcp", "websocket",
     "unknown", "users", "", "constructor", "toString"}

NoForward == [called |-> FALSE, serviceName |-> Absent, status |-> 0, out |-> NoOut]

InitCommon ==
    /\ pc = "boot"
    /\ jwtSecret \in SecretValues
    /\ fwd = NoForward
    /\ req = NoReq
    /\ handler = NotFound
    /\ user = NoUser
    /\ out = NoOut
    /\ resp = NoResp
    /\ ran = <<>>

\* No handler of the repository carries @Roles; JWT_AUDIENCE has its default.
Init ==
    /\ InitCommon
    /\ rolesMeta = {}
    /\ jwtAudience = "authenticated"

\* Mutant: JwtAuthGuard registered ahead of ThrottlerGuard.
GuardOrder_JwtFirst == <<"JwtAuthGuard", "ThrottlerGuard", "RolesGuard">>

\* The APP_GUARD providers of AppModule, in the order of the providers array.
GuardOrder == <<"ThrottlerGuard", "JwtAuthGuard", "RolesGuard">>

\* The stage that follows a global guard: the next APP_GUARD, then the
\* controller's own guard if it has one, then the interceptor.
AfterGlobalGuard(stage, h) ==
    LET i == CHOOSE k \in 1..Len(GuardOrder) : GuardOrder[k] = stage
    IN  IF i < Len(GuardOrder) THEN GuardOrder[i + 1]
        ELSE IF HasClassGuard(h) THEN "JwtAuthGuard@class"
        ELSE "LoggingInterceptor"

\* envValidationSchema.JWT_SECRET, Joi.string().required(): an unset and an
\* empty value are both rejected.
ValidJwtSecret(secret) == secret # Absent /\ secret # ""

\* passport-jwt's Strategy refuses to be constructed without secretOrKey.
SecretOrKeyGiven(secret) == secret # Absent /\ secret # ""

\* Mutant: the environment is not validated and the strategy takes any secret.
StartupAborts_Never(secret) == FALSE

\* Startup aborts when ConfigModule.forRoot rejects the environment (it throws
\* while AppModule is being defined) or when JwtStrategy cannot be constructed
\* (NestFactory.create fails); app.listen() is not reached in either case.
StartupAborts(secret) == ~ValidJwtSecret(secret) \/ ~SecretOrKeyGiven(secret)

\* bootstrap(): NestFactory.create(AppModule) and app.listen(), or the abort.
Bootstrap ==
    /\ pc = "boot"
    /\ pc' = IF StartupAborts(jwtSecret) THEN "aborted" ELSE "idle"
    /\ UNCHANGED <<req, handler, user, out, resp, ran, rolesMeta, jwtAudience, jwtSecret, fwd>>

\* ProxyService.forward called with a service name of ServiceNames.
ForwardCall(serviceName) ==
    /\ pc = "idle"
    /\ LET r == [NoReq EXCEPT !.method = "GET"]
           f == forward(serviceName, <<"x">>, r, NoUser)
       IN  fwd' = [called |-> TRUE, serviceName |-> serviceName,
                   status |-> f.status, out |-> f.out]
    /\ pc' = "unit"
    /\ UNCHANGED <<req, handler, user, out, resp, ran, rolesMeta, jwtAudience, jwtSecret>>

\* An inbound request and the route Express resolves for it.
Arrival(m, p, tok, names) ==
    /\ req' = [method |-> m, path |-> p, token |-> tok,
               headers |-> InboundHeaders(tok, names)]
    /\ handler' = Resolve(m, p)
    /\ pc' = IF Resolve(m, p) = NotFound THEN "notfound" ELSE GuardOrder[1]
    /\ UNCHANGED <<user, out, resp, ran, rolesMeta, jwtAudience, jwtSecret, fwd>>

\* An inbound request arrives.
Receive ==
    /\ pc = "idle"
    /\ \E m \in Methods, p \in Paths, tok \in Tokens,
          names \in ClientHeaderSets : Arrival(m, p, tok, names)

\* No route matches: NotFoundException, no guard runs.
RouteNotFound ==
    /\ pc = "notfound"
    /\ resp' = HttpExceptionFilter(404, "router")
    /\ pc' = "done"
    /\ UNCHANGED <<req, handler, user, out, ran, rolesMeta, jwtAudience, jwtSecret, fwd>>

\* Mutant: the exception a guard throws is swallowed and no response is sent.
AfterGuard_NoReply(stage, result, next) ==
    /\ ran' = Append(ran, stage)
    /\ user' = IF result.pass /\ result.attach THEN result.user ELSE user
    /\ pc' = IF result.pass THEN next ELSE "pending"
    /\ resp' = resp
    /\ UNCHANGED <<req, handler, out, rolesMeta, jwtAudience, jwtSecret, fwd>>

\* Where the request goes after a guard: on to `next`, or, when the guard
\* threw, into the exception filter.
AfterGuard(stage, result, next) ==
    /\ ran' = Append(ran, stage)
    /\ user' = IF result.pass /\ result.attach THEN result.user ELSE user
    /\ IF result.pass
       THEN /\ pc' = next
            /\ resp' = resp
       ELSE /\ pc' = "done"
            /\ resp' = HttpExceptionFilter(result.status, stage)
    /\ UNCHANGED <<req, handler, out, rolesMeta, jwtAudience, jwtSecret, fwd>>

\* ThrottlerGuard admits the request or throws 429.
ThrottlerGuard(admit) ==
    /\ pc = "ThrottlerGuard"
    /\ AfterGuard("ThrottlerGuard",
                  IF admit THEN GuardPass ELSE GuardReject(429),
                  AfterGlobalGuard("ThrottlerGuard", handler))

\* JwtAuthGuard as a global guard
GlobalJwtAuthGuard ==
    /\ pc = "JwtAuthGuard"
    /\ AfterGuard("JwtAuthGuard",
                  JwtAuthGuardCanActivate(handler, req.token, jwtAudience),
                  AfterGlobalGuard("JwtAuthGuard", handler))

\* RolesGuard as a global guard
GlobalRolesGuard ==
    /\ pc = "RolesGuard"
    /\ AfterGuard("RolesGuard", RolesGuardCanActivate(rolesMeta, user),
                  AfterGlobalGuard("RolesGuard", handler))

\* @UseGuards(JwtAuthGuard) on the controller class runs after the global guards.
ClassJwtAuthGuard ==
    /\ pc = "JwtAuthGuard@class"
    /\ AfterGuard("JwtAuthGuard@class",
                  JwtAuthGuardCanActivate(handler, req.token, jwtAudience),
                  "LoggingInterceptor")

\* LoggingInterceptor.intercept: keeps or generates the request id and writes
\* it back into the request headers.
LoggingInterceptor(uuid) ==
    /\ pc = "LoggingInterceptor"
    /\ LET existing == IF "x-request-id" \in DOMAIN req.headers
                       THEN req.headers["x-request-id"] ELSE ""
           requestId == IF existing # "" THEN existing ELSE uuid
       IN  req' = [req EXCEPT !.headers =
                       Overlay([h \in {"x-request-id"} |-> requestId], @)]
    /\ ran' = Append(ran, "LoggingInterceptor")
    /\ pc' = "handler"
    /\ UNCHANGED <<handler, user, out, resp, rolesMeta, jwtAudience, jwtSecret, fwd>>

\* The outbound request ProxyService builds for a plan.
BuildOutbound(plan, r, u) ==
    LET base == urlMap["mcp"]
        hdrs == IF plan.kind = "proxyMultipart"
                THEN Overlay(MultipartHeaders, extractHeaders(r.headers, u))
                ELSE extractHeaders(r.headers, u)
        method == IF plan.kind = "proxyMultipart" THEN "POST" ELSE r.method
    IN  IF plan.kind = "forward"
        THEN forward(plan.service, plan.path, r, u).out
        ELSE Outbound(plan.kind, plan.service, base, plan.path, method, hdrs)

\* The route handler runs: it answers itself, or starts the outbound call.
RunHandler(production) ==
    /\ pc = "handler"
    /\ HandlerPlan(handler, req, user, production).kind # "health"
    /\ ran' = Append(ran, "handler")
    /\ LET plan == HandlerPlan(handler, req, user, production)
       IN  CASE plan.kind = "local" ->
                  /\ resp' = Reply(plan.status, "handler", "handler")
                  /\ pc' = "done"
                  /\ out' = out
             [] plan.kind = "forward"
                  /\ forward(plan.service, plan.path, req, user).status # 0 ->
                  /\ resp' = HttpExceptionFilter(
                        forward(plan.service, plan.path, req, user).status,
                        "handler")
                  /\ pc' = "done"
                  /\ out' = out
             [] OTHER ->
                  /\ out' = BuildOutbound(plan, req, user)
                  /\ pc' = "await"
                  /\ resp' = resp
    /\ UNCHANGED <<req, handler, user, rolesMeta, jwtAudience, jwtSecret, fwd>>

\* The messages of the exceptions a proxy method can meet that are not
\* HttpExceptions (a TypeError of Object.entries(req.body), an Error raised
\* by formData.append or res.set).
ExceptionMessages ==
    {"Cannot convert undefined or null to object", "Arrays are not supported."}

\* What becomes of an exception that is not an HttpException and is thrown
\* inside the try block of a proxy method: forward replaces it by
\* HttpException('Error interno del gateway', 500); proxyRequest and
\* proxyMultipartRequest log it and throw it again as it is, so that it
\* reaches HttpExceptionFilter as a plain Error.
UnexpectedError(kind, msg) ==
    IF kind = "forward"
    THEN ErrorEnvelope(500, InternalErrorMessage, "handler", msg)
    ELSE HttpExceptionFilterError(msg, "handler")

\* A proxy method throws an exception that is not an HttpException before an
\* outbound call exists.
HandlerThrows(msg) ==
    /\ pc = "handler"
    /\ \E production \in BOOLEAN :
          LET plan == HandlerPlan(handler, req, user, production)
          IN  /\ plan.kind \in {"forward", "proxyRequest", "proxyMultipart"}
              /\ plan.kind = "forward" =>
                    forward(plan.service, plan.path, req, user).status = 0
              /\ resp' = UnexpectedError(plan.kind, msg)
    /\ ran' = Append(ran, "handler")
    /\ pc' = "done"
    /\ UNCHANGED <<req, handler, user, out, rolesMeta, jwtAudience, jwtSecret, fwd>>

\* HealthCheckService.check followed by the response the caller gets: with
\* every probe up the result is returned (200, every entry under info); with
\* a probe down terminus throws ServiceUnavailableException carrying the
\* result, and HttpExceptionFilter keeps of it the `error` member only (the
\* entries that are down), as the envelope's error field.
HealthResponse(h, upBackends, strayUp) ==
    LET probes == HealthProbes(h)
        ups == {p.name : p \in {q \in probes : ProbeUp(q, upBackends, strayUp)}}
        downs == {p.name : p \in {q \in probes : ~ProbeUp(q, upBackends, strayUp)}}
        body == [probed |-> {p.name : p \in probes}, backendsUp |-> upBackends,
                 succeeded |-> ups,
                 healthy |-> IF downs = {} THEN ups ELSE {},
                 unreachable |-> downs]
    IN  IF downs = {}
        THEN [Reply(200, "handler", "handler") EXCEPT !.health = body,
                                                       !.body = HealthCheckResultKeys]
        ELSE [HttpExceptionFilter(503, "handler") EXCEPT !.health = body]

\* A probing handler of HealthController runs: the backends that are up and
\* the outcomes of pings that reach no backend are the environment's.
RunHealthCheck(upBackends, strayUp) ==
    /\ pc = "handler"
    /\ HealthProbes(handler) # {}
    /\ ran' = Append(ran, "handler")
    /\ resp' = HealthResponse(handler, upBackends, strayUp)
    /\ pc' = "done"
    /\ UNCHANGED <<req, handler, user, out, rolesMeta, jwtAudience, jwtSecret, fwd>>

\* forward and proxyRequest accept every status (validateStatus: () => true);
\* proxyMultipartRequest leaves axios' default, which rejects outside 2xx.
AcceptsStatus(via, status) ==
    via \in {"forward", "proxyRequest"} \/ (status >= 200 /\ status < 300)

\* The service name the caller of handleAxiosError passes: forward passes its
\* serviceName, proxyRequest 'proxy', proxyMultipartRequest 'multipart-proxy'.
ErrorLabel(o) ==
    CASE o.via = "forward" -> o.service
      [] o.via = "proxyRequest" -> "proxy"
      [] o.via = "proxyMultipart" -> "multipart-proxy"

\* The X-Request-ID response header after the backend's response is relayed:
\* proxyRequest and proxyMultipartRequest copy the backend's response headers
\* onto the response (res.set(response.headers)), the controllers that call
\* forward send status and body only.
RelayedRequestId(o, backendId) ==
    IF o.via \in {"proxyRequest", "proxyMultipart"} /\ backendId # Absent
    THEN backendId
    ELSE ResponseRequestId

\* The backend answers with a status code and, possibly, an x-request-id
\* response header of its own.
BackendResponds(status, backendId) ==
    /\ pc = "await"
    /\ resp' = IF AcceptsStatus(out.via, status)
               THEN [Reply(status, "backend", "backend") EXCEPT
                        !.backendStatus = status,
                        !.xRequestId = RelayedRequestId(out, backendId)]
               ELSE [HttpExceptionFilter(
                        handleAxiosError(AxiosError("ERR_BAD_RESPONSE", status)),
                        "backend") EXCEPT
                        !.backendStatus = status,
                        !.service = ErrorLabel(out)]
    /\ pc' = "done"
    /\ ran' = Append(ran, "backend")
    /\ UNCHANGED <<req, handler, user, out, rolesMeta, jwtAudience, jwtSecret, fwd>>

\* Mutant: a failed call is sent a second time before the error is surfaced.
BackendFails_RetryOnce(code) ==
    /\ pc = "await"
    /\ IF out.attempts < 2
       THEN /\ out' = [out EXCEPT !.attempts = @ + 1]
            /\ UNCHANGED <<pc, resp, ran>>
       ELSE /\ resp' = [HttpExceptionFilter(handleAxiosError(AxiosError(code, 0)),
                                            "backend") EXCEPT
                           !.service = ErrorLabel(out), !.fail = code]
            /\ pc' = "done"
            /\ ran' = Append(ran, "backend")
            /\ out' = out
    /\ UNCHANGED <<req, handler, user, rolesMeta, jwtAudience, jwtSecret, fwd>>

\* The outbound call fails without a response: catchError turns the error into
\* an HttpException and nothing sends the request again.
BackendFails(code) ==
    /\ pc = "await"
    /\ resp' = [HttpExceptionFilter(handleAxiosError(AxiosError(code, 0)),
                                     "backend") EXCEPT
                    !.service = ErrorLabel(out), !.fail = code]
    /\ pc' = "done"
    /\ ran' = Append(ran, "backend")
    /\ UNCHANGED <<req, handler, user, out, rolesMeta, jwtAudience, jwtSecret, fwd>>

Next ==
    \/ Bootstrap
    \/ \E serviceName \in ServiceNames : ForwardCall(serviceName)
    \/ Receive
    \/ RouteNotFound
    \/ \E admit \in BOOLEAN : ThrottlerGuard(admit)
    \/ GlobalJwtAuthGuard
    \/ GlobalRolesGuard
    \/ ClassJwtAuthGuard
    \/ \E uuid \in GeneratedUuids : LoggingInterceptor(uuid)
    \/ \E production \in BOOLEAN : RunHandler(production)
    \/ \E msg \in ExceptionMessages : HandlerThrows(msg)
    \/ \E upBackends \in SUBSET HealthBackends,
          strayUp \in SUBSET {"rest-api", "graphql-api", "payments-service"} :
          RunHealthCheck(upBackends, strayUp)
    \/ \E status \in BackendStatuses, backendId \in BackendRequestIds :
          BackendResponds(status, backendId)
    \/ \E code \in TransportFailures : BackendFails(code)

Spec == Init /\ [][Next]_vars

\* The same pipeline with @Roles metadata on the resolved handler: the inputs
\* of RolesGuard drawn from RoleSets.
RoleSets == {{}, {"admin"}, {"normal", "refugio"}}

InitRoles ==
    /\ InitCommon
    /\ rolesMeta \in RoleSets
    /\ jwtAudience = "authenticated"

SpecRoles == InitRoles /\ [][Next]_vars

\* The same pipeline with JWT_AUDIENCE set by the environment: the default
\* and another value (Joi.string() rejects an empty one at startup).
JwtAudiences == {"authenticated", "other"}

InitAudience ==
    /\ InitCommon
    /\ rolesMeta = {}
    /\ jwtAudience \in JwtAudiences

SpecAudience == InitAudience /\ [][Next]_vars

\* The steps of a request in flight.  Each is a continuation Node's event loop
\* runs once its predecessor has completed; the outbound call ends because the
\* backend responds, the connection fails, or the deadline (timeoutMs) fires.
Pipeline ==
    \/ RouteNotFound
    \/ \E admit \in BOOLEAN : ThrottlerGuard(admit)
    \/ GlobalJwtAuthGuard
    \/ GlobalRolesGuard
    \/ ClassJwtAuthGuard
    \/ \E uuid \in GeneratedUuids : LoggingInterceptor(uuid)
    \/ \E production \in BOOLEAN : RunHandler(production)
    \/ \E msg \in ExceptionMessages : HandlerThrows(msg)
    \/ \E upBackends \in SUBSET HealthBackends,
          strayUp \in SUBSET {"rest-api", "graphql-api", "payments-service"} :
          RunHealthCheck(upBackends, strayUp)
    \/ \E status \in BackendStatuses, backendId \in BackendRequestIds :
          BackendResponds(status, backendId)
    \/ \E code \in TransportFailures : BackendFails(code)

\* The pipeline under the scheduling of the event loop: a request in flight
\* is not left waiting forever while one of its steps can be taken.
SpecLive == Init /\ [][Next]_vars /\ WF_vars(Pipeline)

----------------------------------------------------------------------------
\* Vocabulary of the properties

Ran(stage) == \E i \in 1..Len(ran) : ran[i] = stage

\* The stage answered the request itself (a guard by throwing).
EndedBy(stage) == resp.present /\ resp.by = stage

GuardStages == {"ThrottlerGuard", "JwtAuthGuard", "RolesGuard", "JwtAuthGuard@class"}

RejectedByGuard == resp.present /\ resp.by \in GuardStages

\* The position of a stage in the order RateLimiter, AuthValidator,
\* RoleAuthorizer, route handler / ProxyForwarder.
Rank(stage) ==
    CASE stage = "ThrottlerGuard" -> 1
      [] stage \in {"JwtAuthGuard", "JwtAuthGuard@class"} -> 2
      [] stage = "RolesGuard" -> 3
      [] stage = "LoggingInterceptor" -> 4
      [] stage = "handler" -> 5
      [] stage = "backend" -> 6

FirstIndex(stage) == CHOOSE i \in 1..Len(ran) : ran[i] = stage /\ \A j \in 1..(i - 1) : ran[j] # stage

Protected == handler # NotFound /\ ~IsPublic(handler)
PublicRoute == handler # NotFound /\ IsPublic(handler)

BadToken == req.token.sig \in {"none", "garbled", "wrongalg", "expired"}

----------------------------------------------------------------------------
\* C1: the stages run in the order RateLimiter, AuthValidator, RoleAuthorizer,
\* route handler / ProxyForwarder: a stage runs only after every earlier stage
\* ran and passed; once a guard rejects (429, 401 or 403) the rejecting stage
\* is the last one executed and no outbound call exists; and a request the
\* RateLimiter rejects gets 429 before its token is looked at.
C1_StagesInOrderAndShortCircuit ==
    /\ \A s, t \in {"ThrottlerGuard", "JwtAuthGuard", "RolesGuard", "handler", "backend"} :
          (Rank(s) < Rank(t) /\ Ran(t)) =>
              (Ran(s) /\ FirstIndex(s) < FirstIndex(t) /\ ~EndedBy(s))
    /\ \A i \in 1..Len(ran) : i <= 3 => Rank(ran[i]) = i
    /\ RejectedByGuard =>
          /\ pc = "done"
          /\ ran[Len(ran)] = resp.by
          /\ ~Ran("handler") /\ ~Ran("backend")
          /\ out = NoOut
          /\ resp.status \in {429, 401, 403}
    /\ EndedBy("ThrottlerGuard") =>
          (resp.status = 429 /\ ran = <<"ThrottlerGuard">> /\ user = NoUser)
    /\ out.present => (Ran("handler") /\ ~RejectedByGuard)

\* A request with a valid token on a protected route is answered 429.
C1_Witness ==
    /\ pc = "done"
    /\ Protected
    /\ req.token.sig = "ok"
    /\ EndedBy("ThrottlerGuard")
    /\ resp.status = 429

----------------------------------------------------------------------------
\* C2: on a protected route a request whose bearer token is absent, garbled
\* (bad signature or wrong algorithm) or expired never reaches ProxyForwarder
\* (no handler run, no outbound call), and once the RateLimiter has admitted
\* it, it is answered with 401 by the AuthValidator.
C2_BadTokenOnProtectedIs401 ==
    (Protected /\ BadToken) =>
        /\ out = NoOut
        /\ ~Ran("handler") /\ ~Ran("RolesGuard")
        /\ user = NoUser
        /\ pc \in {"ThrottlerGuard", "JwtAuthGuard", "done"}
        /\ pc = "done" =>
              \/ EndedBy("ThrottlerGuard") /\ resp.status = 429
              \/ EndedBy("JwtAuthGuard") /\ resp.status = 401 /\ resp.via = "filter"

\* An expired token on /payments answered 401.
C2_Witness ==
    /\ pc = "done"
    /\ handler = "Payments.createPayment"
    /\ req.token.sig = "expired"
    /\ resp.status = 401
    /\ out = NoOut

----------------------------------------------------------------------------
\* C3: on a protected route with required-role set R and a valid token of
\* role r, RolesGuard allows when R is empty, and when R is not empty allows
\* exactly when r is in R; otherwise the request ends with 403 and is not
\* forwarded.
C3_RolesGuardDecision ==
    (Protected /\ user.present /\ Ran("RolesGuard")) =>
        /\ ~EndedBy("RolesGuard") <=> (rolesMeta = {} \/ user.role \in rolesMeta)
        /\ EndedBy("RolesGuard") =>
              /\ resp.status = 403
              /\ pc = "done"
              /\ out = NoOut
              /\ ~Ran("handler")

\* A normal-role token on a route that requires admin ends with 403.
C3_Witness ==
    /\ Protected
    /\ rolesMeta = {"admin"}
    /\ user.present /\ user.role = "normal"
    /\ EndedBy("RolesGuard")
    /\ resp.status = 403

----------------------------------------------------------------------------
----------------------------------------------------------------------------
\* The routes the specification calls protected, by path and method.
ListEndpoints ==
    {<<"api", "animales">>, <<"api", "refugios">>, <<"api", "causas-urgentes">>}

ClaimedProtected ==
    \/ /\ req.path # <<>> /\ req.path[1] = "payments"
       /\ req.path \notin {<<"payments", "health">>,
                           <<"payments", "webhooks", "stripe">>}
    \/ req.path \in {<<"auth", "me">>, <<"auth", "validate">>}
    \/ /\ req.path # <<>> /\ req.path[1] = "api"
       /\ ~(req.method = "GET" /\ req.path \in ListEndpoints)

ClaimedTarget ==
    CASE req.path[1] = "payments" -> "payments"
      [] req.path[1] = "auth" -> "auth"
      [] req.path[1] = "api" -> "rest"

\* The token verifies and carries a subject and an accepted audience.
ValidToken ==
    /\ req.token.sig = "ok"
    /\ req.token.payload.sub # Absent
    /\ (req.token.payload.aud = NoAud \/ jwtAudience \in req.token.payload.aud.vals)

TokenRole ==
    IF req.token.payload.role = Absent THEN "normal" ELSE req.token.payload.role

HandlerDone == pc \in {"await", "done"} /\ Ran("handler")

\* The requests RestProxyController forwards without asking for an identity.
AnonymousForward ==
    \/ handler \in {"Rest.healthCheck", "Rest.getEspecies"}
    \/ /\ req.method = "GET"
       /\ handler \in {"Rest.getAnimales", "Rest.getAnimalById",
                       "Rest.getRefugios", "Rest.getRefugioById",
                       "Rest.getCausasUrgentes", "Rest.getCausaUrgenteById",
                       "Rest.getCampanias"}

\* C5 (as claimed): on every protected route (/payments and /payments/* but
\* health and the Stripe webhook, /auth/me, /auth/validate, every /api path
\* and method other than GET on the list endpoints, e.g. POST /api/animales)
\* a request with a valid token, once the RateLimiter admitted it, has an
\* outbound request to the route's backend carrying X-User-Id and X-User-Role
\* of the verified identity.  Stated for the requests of that set that the
\* controllers do not serve as public reads (those, e.g. GET /api/health, go
\* out without identity headers by design).
C5_ValidTokenOnProtectedIsForwarded ==
    (ClaimedProtected /\ ~AnonymousForward /\ ValidToken /\ handler # NotFound
        /\ pc \in {"await", "done"} /\ ~EndedBy("ThrottlerGuard")) =>
        /\ out.present
        /\ out.service = ClaimedTarget
        /\ {"x-user-id", "x-user-role"} \subseteq DOMAIN out.headers
        /\ out.headers["x-user-id"] = req.token.payload.sub
        /\ out.headers["x-user-role"] = TokenRole

----------------------------------------------------------------------------
\* C6 (as claimed): a request under /api without a token has an outbound call
\* only when it is a GET on /api/animales, /api/refugios or
\* /api/causas-urgentes; every other one ends with 401 and no outbound call.
C6_OnlyListEndpointsAnonymous ==
    (req.token.sig = "none" /\ req.path # <<>> /\ req.path[1] = "api") =>
        /\ out.present => (req.method = "GET" /\ req.path \in ListEndpoints)
        /\ (pc = "done" /\ ~EndedBy("ThrottlerGuard")
              /\ ~(req.method = "GET" /\ req.path \in ListEndpoints)) =>
              (resp.status = 401 /\ out = NoOut)

\* C6 (amended): a request under /api without a token has an outbound call,
\* to the core backend, only when it is a GET on /api/animales,
\* /api/animales/:id, /api/refugios, /api/refugios/:id, /api/causas-urgentes,
\* /api/causas-urgentes/:id or /api/campanias, or any method on /api/health
\* or /api/especies; every other one, once the RateLimiter admitted it, ends
\* with 401 and no outbound call.
C6_AnonymousApiAccess ==
    (req.token.sig = "none" /\ handler \in HandlersOf(RestRoutes)) =>
        /\ out.present => (AnonymousForward /\ out.service = "rest")
        /\ (HandlerDone /\ AnonymousForward /\ resp.thrown = Absent) => out.present
        /\ (pc = "done" /\ ~EndedBy("ThrottlerGuard") /\ ~AnonymousForward) =>
              (resp.status = 401 /\ out = NoOut)

\* POST /api/animales without a token: the handler itself answers 401.
C6_Witness ==
    /\ req.token.sig = "none"
    /\ handler = "Rest.getAnimales"
    /\ req.method = "POST"
    /\ pc = "done"
    /\ EndedBy("handler")
    /\ resp.status = 401
    /\ out = NoOut

----------------------------------------------------------------------------
\* C9: the names of the outbound headers are within the allow-list, the
\* gateway-identity headers and the user-identity headers (plus the multipart
\* body headers for the multipart variant); a header whose value was copied
\* from the inbound request is on the allow-list, and an inbound header that
\* is neither on the allow-list nor a user-identity name is not sent on.
C9_OnlyAllowListedHeadersCopied ==
    out.present =>
        /\ DOMAIN out.headers \subseteq
              PROPAGATED_HEADERS \cup DOMAIN GATEWAY_HEADERS \cup USER_HEADERS
              \cup (IF out.via = "proxyMultipart" THEN DOMAIN MultipartHeaders ELSE {})
        /\ \A h \in DOMAIN req.headers \cap DOMAIN out.headers :
              out.headers[h] = req.headers[h] => h \in PROPAGATED_HEADERS
        /\ \A h \in DOMAIN req.headers \ (PROPAGATED_HEADERS \cup USER_HEADERS) :
              h \notin DOMAIN out.headers

\* A multipart forward of a request that carried cookie, x-gateway and
\* x-user-role: none of them is sent on.
C9_Witness ==
    /\ out.present
    /\ out.via = "proxyMultipart"
    /\ {"cookie", "x-gateway", "x-user-role", "accept"} \subseteq DOMAIN req.headers
    /\ "accept" \in DOMAIN out.headers
    /\ DOMAIN out.headers \cap {"cookie", "x-gateway", "x-user-role"} = {}

----------------------------------------------------------------------------
\* C10: the outbound X-User-Id, X-User-Role, X-User-Email and X-User-Refugio
\* are exactly those of the identity the AuthValidator attached, which comes
\* from the verified token; client-supplied x-user-* headers never show in
\* them, and without an attached identity the outbound request has none.
C10_UserHeadersFromIdentityOnly ==
    out.present =>
        /\ user.present <=> (Protected /\ ValidToken)
        /\ user.present =>
              /\ user.userId = req.token.payload.sub
              /\ user.role = TokenRole
              /\ user.email = req.token.payload.email
              /\ user.idRefugio = req.token.payload.id_refugio
        /\ "x-user-id" \in DOMAIN out.headers <=> user.present
        /\ "x-user-role" \in DOMAIN out.headers <=> user.present
        /\ "x-user-email" \in DOMAIN out.headers <=>
              (user.present /\ user.email # Absent)
        /\ "x-user-refugio" \in DOMAIN out.headers <=>
              (user.present /\ user.idRefugio # Absent)
        /\ \A h \in DOMAIN out.headers \cap USER_HEADERS :
              out.headers[h] = (CASE h = "x-user-id" -> user.userId
                                  [] h = "x-user-role" -> user.role
                                  [] h = "x-user-email" -> user.email
                                  [] h = "x-user-refugio" -> user.idRefugio)

\* A request that sent its own x-user-id and x-user-email goes out with the
\* token's identity in them.
C10_Witness ==
    /\ out.present
    /\ user.present
    /\ {"x-user-id", "x-user-email"} \subseteq DOMAIN req.headers
    /\ req.headers["x-user-id"] = ClientValue
    /\ "x-user-email" \in DOMAIN out.headers
    /\ out.headers["x-user-id"] = "u1"
    /\ out.headers["x-user-email"] = "e1"

----------------------------------------------------------------------------
\* C11 (as claimed): every forwarded request carries one x-request-id, the
\* inbound request's when it sent one and a generated one otherwise, and the
\* X-Request-ID header of the response delivered to the caller holds that
\* same id.
C11_OneCorrelationIdEndToEnd ==
    out.present =>
        /\ "x-request-id" \in DOMAIN out.headers
        /\ out.headers["x-request-id"] = req.headers["x-request-id"]
        /\ out.headers["x-request-id"] \in {ClientValue} \cup GeneratedUuids
        /\ resp.present => resp.xRequestId = out.headers["x-request-id"]

----------------------------------------------------------------------------
\* C12 (as claimed): on the JSON forward and on the multipart forward alike,
\* whatever status the backend answers with (4xx and 5xx included) reaches the
\* caller as that status with the backend's body, never as the gateway's error
\* envelope; only an outbound call that got no response ends in a gateway
\* error.
C12_BackendStatusRelayedVerbatim ==
    (pc = "done" /\ Ran("backend")) =>
        /\ resp.backendStatus # 0 =>
              (resp.status = resp.backendStatus /\ resp.via = "backend")
        /\ resp.via = "filter" => resp.fail # Absent

----------------------------------------------------------------------------
\* C13 (as claimed): when the outbound connection is refused, on every proxied
\* route (auth, core, graphql, payments, chat/mcp) the caller gets 503 and the
\* error body names the logical service the request was routed to.
C13_RefusedIs503NamingService ==
    (pc = "done" /\ resp.fail = "ECONNREFUSED") =>
        /\ resp.status = 503
        /\ resp.via = "filter"
        /\ resp.service = out.service
        /\ resp.service \in DOMAIN urlMap

----------------------------------------------------------------------------
\* C14 (as claimed): every outbound proxy call has a deadline of 30 seconds,
\* and whenever the deadline expires before the backend responds the caller
\* receives 504 and no other status.
C14_DeadlineExpiryIs504 ==
    /\ out.present => out.timeout = 30000
    /\ (pc = "done" /\ resp.fail \in DeadlineExpiries) =>
          (resp.status = 504 /\ resp.via = "filter")

----------------------------------------------------------------------------
----------------------------------------------------------------------------
\* Number of times the stage occurs among the stages executed.
Times(stage) == Cardinality({i \in 1..Len(ran) : ran[i] = stage})

\* C16: nothing is retried: a proxied request is sent to its backend at most
\* once (the handler runs once, one outbound request, one attempt, one
\* outcome), and when that one attempt fails without a response the request
\* ends at once with a gateway error (502, 503 or 504).
C16_NoRetry ==
    /\ Times("handler") <= 1 /\ Times("backend") <= 1
    /\ out.present <=> out.attempts = 1
    /\ out.attempts <= 1
    /\ resp.fail # Absent =>
          /\ pc = "done"
          /\ out.attempts = 1
          /\ Times("backend") = 1
          /\ resp.via = "filter"
          /\ resp.status \in {502, 503, 504}

\* A refused connection on /payments ended the request with 503 after the one
\* attempt.
C16_Witness ==
    /\ pc = "done"
    /\ handler = "Payments.createPayment"
    /\ resp.fail = "ECONNREFUSED"
    /\ resp.status = 503
    /\ out.attempts = 1

----------------------------------------------------------------------------
\* The name of the probe of a backend.
ProbeNameOf(b) ==
    CASE b = "rest" -> "rest-api"
      [] b = "graphql" -> "graphql-api"
      [] b = "payments" -> "payments-service"

\* C17 (as claimed): when GET /health/all runs with one of the probed backends
\* down and the others up, the response shows each backend that is up as
\* healthy and the one that is down as unreachable, together with an
\* overall-degraded status; the healthy entries are not dropped.
C17_DegradedKeepsHealthyEntries ==
    (handler = "Health.checkAll" /\ pc = "done" /\ EndedBy("handler")
        /\ Cardinality(resp.health.backendsUp) = 2) =>
        /\ resp.status = 503
        /\ resp.health.healthy = {ProbeNameOf(b) : b \in resp.health.backendsUp}
        /\ resp.health.unreachable =
              {ProbeNameOf(b) : b \in HealthBackends \ resp.health.backendsUp}

----------------------------------------------------------------------------
\* C18 (as claimed): the probes of checkAll are independent: whatever the
\* other probes end in, the result reported for a backend is that of its own
\* probe (healthy when it succeeded, unreachable when it failed), and a
\* failing probe neither changes nor withholds the result of another backend.
C18_ProbeResultsIndependent ==
    (handler = "Health.checkAll" /\ pc = "done" /\ EndedBy("handler")) =>
        \A n \in resp.health.probed :
            /\ n \in resp.health.succeeded => n \in resp.health.healthy
            /\ n \notin resp.health.succeeded => n \in resp.health.unreachable

----------------------------------------------------------------------------
\* The logical services the claim names: core, graphql, payments, auth, chat.
LogicalServices == {"rest", "graphql", "payments", "auth", "mcp"}

\* C19 (as claimed): checkAll probes every configured backend, one entry for
\* each of core, graphql, payments, auth and chat, each probe addressed to the
\* backend's configured URL, and GET /health/<service> exists for each of them.
C19_EveryBackendProbed ==
    /\ (handler = "Health.checkAll" /\ pc = "done" /\ EndedBy("handler")) =>
          /\ \A b \in LogicalServices :
                \E p \in HealthProbes(handler) :
                    p.backend = b /\ p.name \in resp.health.probed
          /\ \A p \in HealthProbes(handler) : PingsBackend(p)
    /\ (pc = "done" /\ req.method = "GET"
          /\ req.path \in {<<"health", b>> : b \in LogicalServices}) =>
          handler # NotFound

----------------------------------------------------------------------------
\* C20: when JWT_SECRET is unset or empty at startup, startup aborts: the
\* process never listens and no request is ever received, let alone
\* forwarded or answered.
C20_MissingSecretAbortsStartup ==
    jwtSecret \in {Absent, ""} =>
        /\ pc \in {"boot", "aborted"}
        /\ req = NoReq
        /\ ran = <<>>
        /\ out = NoOut /\ resp = NoResp /\ ~fwd.called

\* Startup aborted on an empty JWT_SECRET.
C20_Witness ==
    /\ jwtSecret = ""
    /\ pc = "aborted"

----------------------------------------------------------------------------
\* C21: on a protected route, for a verified token with a subject that has an
\* audience claim (a string or a set of strings) while an expected audience
\* is configured: the AuthValidator accepts the token only if the expected
\* audience equals the string or is a member of the set, and otherwise
\* answers 401 with no identity attached and no outbound call.
C21_AudienceCheck ==
    (/\ Protected /\ Ran("JwtAuthGuard")
     /\ req.token.sig = "ok"
     /\ req.token.payload.sub # Absent
     /\ req.token.payload.aud # NoAud
     /\ jwtAudience # Absent) =>
        IF jwtAudience \in req.token.payload.aud.vals
        THEN /\ user.present
             /\ ~EndedBy("JwtAuthGuard") /\ ~EndedBy("JwtAuthGuard@class")
        ELSE /\ pc = "done"
             /\ EndedBy("JwtAuthGuard") /\ resp.status = 401
             /\ user = NoUser
             /\ out = NoOut

\* A token with aud "authenticated" rejected where "other" is configured, and
\* the same token accepted and forwarded where "authenticated" is.
C21_Witness ==
    /\ pc = "done"
    /\ handler = "Auth.me"
    /\ req.token.payload.aud = AudStr("authenticated")
    /\ req.token.sig = "ok"
    /\ jwtAudience = "other"
    /\ EndedBy("JwtAuthGuard") /\ resp.status = 401

----------------------------------------------------------------------------
\* C22 (as claimed): the AuthValidator verifies the issuer: on a protected
\* route a token whose issuer differs from the configured one is rejected
\* with 401 by the AuthValidator, no identity is attached and nothing is
\* forwarded.
C22_ForeignIssuerRejected ==
    (/\ Protected /\ Ran("JwtAuthGuard")
     /\ req.token.payload.iss # JWT_ISSUER) =>
        /\ pc = "done"
        /\ EndedBy("JwtAuthGuard") /\ resp.status = 401
        /\ user = NoUser
        /\ out = NoOut

----------------------------------------------------------------------------
\* C23 (as claimed): every error response the gateway produces itself (429,
\* 401 from the AuthValidator or from a protected handler, 403, 502, 503,
\* 504, 500) has the body {statusCode, message, error, timestamp, path,
\* requestId} with requestId equal to the request's correlation id, also
\* when the client sent no x-request-id and when a guard rejected the request.
GatewayErrorStatuses == {429, 401, 403, 500, 502, 503, 504}

C23_ErrorEnvelopeEverywhere ==
    (/\ resp.present
     /\ resp.via \in {"filter", "handler"}
     /\ resp.status \in GatewayErrorStatuses) =>
        /\ resp.body = ErrorResponseKeys
        /\ resp.requestId # Absent
        /\ "x-request-id" \in DOMAIN req.headers
        /\ resp.requestId = req.headers["x-request-id"]

----------------------------------------------------------------------------
\* C24 (as claimed): every unexpected local exception (one that is not a
\* gateway HTTP error) is answered with status 500 and a message that does not
\* depend on the exception.
C24_UnexpectedIsGeneric500 ==
    (resp.present /\ resp.thrown # Absent) =>
        /\ resp.status = 500
        /\ resp.message \in {InternalErrorMessage, UnexpectedErrorMessage}
        /\ resp.message # resp.thrown

----------------------------------------------------------------------------
\* C25: on a protected route, for a token that passed the signature and
\* expiry checks: when its subject is missing the AuthValidator answers 401
\* and attaches nothing; otherwise the identity it attaches has userId = the
\* subject and role = the token's role, or "normal" when the token has none
\* (email and refuge id are the token's), and it is attached whenever the
\* audience check does not reject.
C25_IdentityFromPayload ==
    (Protected /\ Ran("JwtAuthGuard") /\ req.token.sig = "ok") =>
        IF req.token.payload.sub = Absent
        THEN /\ pc = "done"
             /\ EndedBy("JwtAuthGuard") /\ resp.status = 401
             /\ user = NoUser
             /\ out = NoOut
        ELSE /\ user.present =>
                  /\ user.userId = req.token.payload.sub
                  /\ user.role = IF req.token.payload.role = Absent
                                 THEN "normal" ELSE req.token.payload.role
                  /\ user.role # Absent
                  /\ user.email = req.token.payload.email
                  /\ user.idRefugio = req.token.payload.id_refugio
             /\ (req.token.payload.aud = NoAud
                   \/ jwtAudience \in req.token.payload.aud.vals) => user.present

\* A verified token without a role claim whose holder was given role "normal",
\* and the request forwarded under that identity.
C25_Witness ==
    /\ Protected
    /\ req.token.sig = "ok"
    /\ req.token.payload.role = Absent
    /\ user.present /\ user.userId = "u1" /\ user.role = "normal"
    /\ out.present

----------------------------------------------------------------------------
\* C26 (as claimed): each pipeline stage executes at most once per request,
\* and the identity is derived by a single run of the AuthValidator on every
\* route, the routes of the core, graphql and payments controllers included.
AuthValidatorRuns == Times("JwtAuthGuard") + Times("JwtAuthGuard@class")

C26_EachStageAtMostOnce ==
    /\ \A stage \in {"ThrottlerGuard", "RolesGuard", "LoggingInterceptor",
                     "handler", "backend"} : Times(stage) <= 1
    /\ AuthValidatorRuns <= 1

----------------------------------------------------------------------------
\* C27: the outbound headers are a function of the inbound request: the
\* allow-listed inbound headers with their values, the gateway's own headers,
\* the x-user-* headers of the identity the token gives, and (multipart) the
\* form's content type; two forwards of one inbound request can differ in
\* x-request-id only, and only when the client sent none, in which case the
\* id is a generated one.
ClientSentRequestId ==
    "x-request-id" \in DOMAIN req.headers /\ req.headers["x-request-id"] = ClientValue

ExpectedOutboundNames ==
    (PROPAGATED_HEADERS \cap DOMAIN req.headers)
        \cup DOMAIN GATEWAY_HEADERS
        \cup (IF user.present THEN {"x-user-id", "x-user-role"} ELSE {})
        \cup (IF user.present /\ req.token.payload.email # Absent
              THEN {"x-user-email"} ELSE {})
        \cup (IF user.present /\ req.token.payload.id_refugio # Absent
              THEN {"x-user-refugio"} ELSE {})
        \cup (IF out.via = "proxyMultipart" THEN {"content-type"} ELSE {})

ExpectedOutboundValue(h) ==
    CASE h = "x-user-id" -> req.token.payload.sub
      [] h = "x-user-role" -> TokenRole
      [] h = "x-user-email" -> req.token.payload.email
      [] h = "x-user-refugio" -> req.token.payload.id_refugio
      [] h \in DOMAIN GATEWAY_HEADERS -> GATEWAY_HEADERS[h]
      [] h = "content-type" /\ out.via = "proxyMultipart" -> MultipartHeaders[h]
      [] h = "authorization" -> BearerValue
      [] OTHER -> ClientValue

----------------------------------------------------------------------------
\* The terminal states of the request state machine, read off the response.
InFlight == pc \notin {"boot", "aborted", "idle", "unit", "done"}

RateLimited == EndedBy("ThrottlerGuard") /\ resp.status = 429

Unauthenticated ==
    /\ resp.present /\ resp.status = 401
    /\ resp.by \in {"JwtAuthGuard", "JwtAuthGuard@class", "handler"}

Unauthorized == EndedBy("RolesGuard") /\ resp.status = 403

Forwarded == resp.present /\ resp.via = "backend"

Errored ==
    /\ resp.present /\ resp.via \in {"filter", "handler"}
    /\ resp.by \in {"router", "handler", "backend"}
    /\ resp.status \in {404, 500, 502, 503, 504}

TerminalStates ==
    {t \in {"RateLimited", "Unauthenticated", "Unauthorized", "Forwarded", "Errored"} :
        CASE t = "RateLimited" -> RateLimited
          [] t = "Unauthenticated" -> Unauthenticated
          [] t = "Unauthorized" -> Unauthorized
          [] t = "Forwarded" -> Forwarded
          [] t = "Errored" -> Errored}

\* C28: every request received is eventually answered (no request stays in
\* flight forever, given that the outbound call ends by a response, a failure
\* or the deadline); once a response is written it is never replaced by
\* another and nothing of the request runs afterwards; and an answered
\* request of a proxy route is in exactly one of the terminal states
\* RateLimited, Unauthenticated, Unauthorized, Forwarded, Errored.
C28_EveryRequestAnsweredOnce ==
    /\ InFlight ~> (pc = "done" /\ resp.present)
    /\ [][resp.present => (resp' = resp /\ pc' = pc /\ ran' = ran /\ out' = out)]_vars
    /\ [](InFlight => ~resp.present)
    /\ []((pc = "done" /\ handler \notin HandlersOf(HealthRoutes)) =>
            Cardinality(TerminalStates) = 1)

\* A request whose outbound call ended by the deadline, answered once.
C28_Witness ==
    /\ pc = "done"
    /\ out.present
    /\ resp.present /\ resp.fail \in DeadlineExpiries
    /\ TerminalStates = {"Errored"}

----------------------------------------------------------------------------
\* The public handlers of RestProxyController that ask for an identity when
\* the method is not GET.
PublicIdentityChecks ==
    {"Rest.getAnimales", "Rest.getAnimalById", "Rest.getRefugios",
     "Rest.getRefugioById", "Rest.getCausasUrgentes",
     "Rest.getCausaUrgenteById", "Rest.getCampanias"}

----------------------------------------------------------------------------
\* C30 (as claimed): the HealthAggregator and the ProxyForwarder agree on the
\* base URL of every service both address (core, graphql, payments): the
\* base URL a health probe is sent to is the URL forward() resolves for that
\* service.
C30_HealthAndForwardAgreeOnBaseUrl ==
    (HealthProbes(handler) # {} /\ Ran("handler")) =>
        \A p \in HealthProbes(handler) :
            /\ getServiceUrl(p.backend) # ""
            /\ ConfigGet(p.key) = getServiceUrl(p.backend)

====
